---- MODULE Spec2Model ----
(***************************************************************************)
(* The radix-tree router of lierbai/web (src/node.go, src/web.go).         *)
(*                                                                         *)
(* A path is a sequence of one-character strings.  The method tree is a    *)
(* store of node records addressed by their position in the sequence       *)
(* `nodes`; node 1 is the root, a pointer *node is a position in the store *)
(* and a children slice is a sequence of positions.  A nil handler chain   *)
(* is 0; the chain passed to the k-th addRoute call is k.                  *)
(***************************************************************************)
EXTENDS Integers, Sequences, FiniteSets, TLC

VARIABLES nodes, calls, value, req, op, centre, context

vars == <<nodes, calls, value, req, op, centre, context>>

(***************************************************************************)
(* Bounds of the model.                                                    *)
(***************************************************************************)
MaxCalls == 3
MaxPathLen == 3
MaxCap == 2
MaxWildCalls == 2
MaxAnyLen == 5
MaxCaseCalls == 2
MaxCaseLen == 4
MaxRoutes == 2
MaxUse == 2

(***************************************************************************)
(* Program constants.                                                      *)
(***************************************************************************)
abortIndex == 63
StatusMovedPermanently == 301
StatusTemporaryRedirect == 307
StatusNotFound == 404
StatusMethodNotAllowed == 405

(***************************************************************************)
(* Go string and slice helpers (0-based, half-open like s[a:b]).            *)
(***************************************************************************)
Slice(s, a, b) == SubSeq(s, a + 1, b)

From(s, a) == SubSeq(s, a + 1, Len(s))

At(s, i) == s[i + 1]

Max(a, b) == IF a >= b THEN a ELSE b

min(a, b) == IF a <= b THEN a ELSE b

RECURSIVE lcpFrom(_, _, _, _)
lcpFrom(a, b, i, max) ==
    IF i < max /\ At(a, i) = At(b, i) THEN lcpFrom(a, b, i + 1, max) ELSE i

longestCommonPrefix(a, b) == lcpFrom(a, b, 0, min(Len(a), Len(b)))

IsWild(c) == c = ":" \/ c = "*"

countParams(path) ==
    LET n == Cardinality({i \in 1..Len(path) : IsWild(path[i])})
    IN  IF n >= 255 THEN 255 ELSE n

\* index of the first ':' or '*' of path at or after `from`, or -1
RECURSIVE firstWild(_, _)
firstWild(path, from) ==
    IF from >= Len(path) THEN -1
    ELSE IF IsWild(At(path, from)) THEN from
    ELSE firstWild(path, from + 1)

\* index of the first '/' of path at or after `from`, or Len(path)
RECURSIVE firstSlash(_, _)
firstSlash(path, from) ==
    IF from >= Len(path) THEN Len(path)
    ELSE IF At(path, from) = "/" THEN from
    ELSE firstSlash(path, from + 1)

\* findWildcard that accepts a second ':' or '*' inside the wildcard's name
findWildcardAnyName(path) ==
    LET start == firstWild(path, 0)
    IN  IF start < 0
        THEN [wildcard |-> <<>>, i |-> -1, valid |-> FALSE]
        ELSE [wildcard |-> Slice(path, start, firstSlash(path, start + 1)),
              i        |-> start,
              valid    |-> TRUE]

findWildcard(path) ==
    LET start == firstWild(path, 0)
    IN  IF start < 0
        THEN [wildcard |-> <<>>, i |-> -1, valid |-> FALSE]
        ELSE LET end == firstSlash(path, start + 1)
             IN  [wildcard |-> Slice(path, start, end),
                  i        |-> start,
                  valid    |-> \A k \in (start + 1)..(end - 1) : ~IsWild(At(path, k))]

(***************************************************************************)
(* Nodes.                                                                  *)
(***************************************************************************)
NewNode ==
    [path |-> <<>>, indices |-> <<>>, children |-> <<>>, handlers |-> 0,
     priority |-> 0, nType |-> "static", maxParams |-> 0, wildChild |-> FALSE,
     fullPath |-> <<>>]

\* the outcome of a registration: the store as the call left it, and whether it panicked
Done(t) == [t |-> t, ok |-> TRUE]

Panic(t) == [t |-> t, ok |-> FALSE]

RECURSIVE bubble(_, _, _, _)
bubble(t, cs, newPos, prio) ==
    IF newPos > 0 /\ t[At(cs, newPos - 1)].priority < prio
    THEN bubble(t, cs, newPos - 1, prio)
    ELSE newPos

\* moves the element at pos to newPos, shifting the ones between by one
MoveTo(s, pos, newPos) ==
    Slice(s, 0, newPos) \o Slice(s, pos, pos + 1) \o Slice(s, newPos, pos)
        \o From(s, pos + 1)

\* incrementChildPrio that reorders the children and leaves the index string
incrementChildPrioChildrenOnly(t, n, pos) ==
    LET cs     == t[n].children
        t1     == [t EXCEPT ![At(cs, pos)].priority = @ + 1]
        prio   == t1[At(cs, pos)].priority
        newPos == bubble(t1, cs, pos, prio)
        t2     == [t1 EXCEPT ![n].children = MoveTo(cs, pos, newPos)]
    IN  [t |-> t2, newPos |-> newPos]

incrementChildPrio(t, n, pos) ==
    LET cs     == t[n].children
        t1     == [t EXCEPT ![At(cs, pos)].priority = @ + 1]
        prio   == t1[At(cs, pos)].priority
        newPos == bubble(t1, cs, pos, prio)
        t2     == [t1 EXCEPT ![n].children = MoveTo(cs, pos, newPos),
                             ![n].indices  = IF newPos # pos
                                             THEN MoveTo(@, pos, newPos)
                                             ELSE @]
    IN  [t |-> t2, newPos |-> newPos]

(***************************************************************************)
(* insertChild: one round of its loop per call.                            *)
(***************************************************************************)
insertLeaf(t, n, path, fullPath, handlers) ==
    Done([t EXCEPT ![n].path = path, ![n].handlers = handlers,
                   ![n].fullPath = fullPath])

insertCatchAll(t, n, numParams, path, fullPath, handlers, wildcard, i) ==
    IF i + Len(wildcard) # Len(path) \/ numParams > 1 THEN Panic(t)
    ELSE IF Len(t[n].path) > 0 /\ At(t[n].path, Len(t[n].path) - 1) = "/"
    THEN Panic(t)
    \* i-- ; path[i] is out of range when the wildcard opens the path
    ELSE IF i - 1 < 0 THEN Panic(t)
    ELSE IF At(path, i - 1) # "/" THEN Panic(t)
    ELSE LET j      == i - 1
             anchor == Len(t) + 1
             leaf   == Len(t) + 2
             first  == [NewNode EXCEPT !.wildChild = TRUE, !.nType = "catchAll",
                                       !.maxParams = 1, !.fullPath = fullPath,
                                       !.children = <<leaf>>, !.priority = 1]
             second == [NewNode EXCEPT !.path = From(path, j), !.nType = "catchAll",
                                       !.maxParams = 1, !.handlers = handlers,
                                       !.priority = 1, !.fullPath = fullPath]
             t1     == [t EXCEPT ![n].path = Slice(path, 0, j),
                                 ![n].maxParams = Max(@, 1),
                                 ![n].children = <<anchor>>,
                                 ![n].indices = <<"/">>]
         IN  Done(Append(Append(t1, first), second))

RECURSIVE insertChild(_, _, _, _, _, _)
insertParam(t, n, numParams, path0, fullPath, handlers, wildcard, i) ==
    LET path  == IF i > 0 THEN From(path0, i) ELSE path0
        child == Len(t) + 1
        pnode == [NewNode EXCEPT !.nType = "param", !.path = wildcard,
                                 !.maxParams = numParams, !.fullPath = fullPath,
                                 !.priority = 1]
        t1    == [t EXCEPT ![n].path = IF i > 0 THEN Slice(path0, 0, i) ELSE @,
                           ![n].wildChild = TRUE,
                           ![n].children = <<child>>]
        np    == (numParams - 1) % 256
    IN  IF Len(wildcard) < Len(path)
        THEN LET next  == Len(t) + 2
                 nnode == [NewNode EXCEPT !.maxParams = np, !.priority = 1,
                                          !.fullPath = fullPath]
                 t2    == Append(Append(t1, [pnode EXCEPT !.children = <<next>>]),
                                 nnode)
             IN  insertChild(t2, next, np, From(path, Len(wildcard)), fullPath,
                             handlers)
        ELSE Done(Append(t1, [pnode EXCEPT !.handlers = handlers]))

insertChild(t, n, numParams, path, fullPath, handlers) ==
    IF numParams = 0 THEN insertLeaf(t, n, path, fullPath, handlers)
    ELSE LET fw == findWildcard(path)
         IN  IF fw.i < 0 THEN insertLeaf(t, n, path, fullPath, handlers)
             ELSE IF ~fw.valid THEN Panic(t)
             ELSE IF Len(fw.wildcard) < 2 THEN Panic(t)
             ELSE IF Len(t[n].children) > 0 THEN Panic(t)
             ELSE IF At(fw.wildcard, 0) = ":"
             THEN insertParam(t, n, numParams, path, fullPath, handlers,
                              fw.wildcard, fw.i)
             ELSE insertCatchAll(t, n, numParams, path, fullPath, handlers,
                                 fw.wildcard, fw.i)

(***************************************************************************)
(* addRoute: one round of the walk loop per call of walk.                  *)
(***************************************************************************)
\* splitEdge that hands the node's whole priority on to the child it splits off
splitEdgeKeepPriority(t, n, path, fullPath, parentFullPathIndex, i) ==
    LET old   == t[n]
        kids  == {old.children[k] : k \in 1..Len(old.children)}
        mp    == IF kids = {} THEN 0
                 ELSE CHOOSE m \in {t[k].maxParams : k \in kids} :
                        \A k \in kids : t[k].maxParams <= m
        child == [NewNode EXCEPT !.path = From(old.path, i),
                                 !.wildChild = old.wildChild,
                                 !.indices = old.indices,
                                 !.children = old.children,
                                 !.handlers = old.handlers,
                                 !.priority = old.priority,
                                 !.fullPath = old.fullPath,
                                 !.maxParams = mp]
        t1    == [t EXCEPT ![n].children = <<Len(t) + 1>>,
                           ![n].indices = <<At(old.path, i)>>,
                           ![n].path = Slice(path, 0, i),
                           ![n].handlers = 0,
                           ![n].wildChild = FALSE,
                           ![n].fullPath = Slice(fullPath, 0, parentFullPathIndex + i)]
    IN  Append(t1, child)

\* splitEdge that clears the handlers without handing them to the child
splitEdgeDropHandlers(t, n, path, fullPath, parentFullPathIndex, i) ==
    LET old   == t[n]
        kids  == {old.children[k] : k \in 1..Len(old.children)}
        mp    == IF kids = {} THEN 0
                 ELSE CHOOSE m \in {t[k].maxParams : k \in kids} :
                        \A k \in kids : t[k].maxParams <= m
        child == [NewNode EXCEPT !.path = From(old.path, i),
                                 !.wildChild = old.wildChild,
                                 !.indices = old.indices,
                                 !.children = old.children,
                                 !.priority = old.priority - 1,
                                 !.fullPath = old.fullPath,
                                 !.maxParams = mp]
        t1    == [t EXCEPT ![n].children = <<Len(t) + 1>>,
                           ![n].indices = <<At(old.path, i)>>,
                           ![n].path = Slice(path, 0, i),
                           ![n].handlers = 0,
                           ![n].wildChild = FALSE,
                           ![n].fullPath = Slice(fullPath, 0, parentFullPathIndex + i)]
    IN  Append(t1, child)

splitEdge(t, n, path, fullPath, parentFullPathIndex, i) ==
    LET old   == t[n]
        kids  == {old.children[k] : k \in 1..Len(old.children)}
        mp    == IF kids = {} THEN 0
                 ELSE CHOOSE m \in {t[k].maxParams : k \in kids} :
                        \A k \in kids : t[k].maxParams <= m
        child == [NewNode EXCEPT !.path = From(old.path, i),
                                 !.wildChild = old.wildChild,
                                 !.indices = old.indices,
                                 !.children = old.children,
                                 !.handlers = old.handlers,
                                 !.priority = old.priority - 1,
                                 !.fullPath = old.fullPath,
                                 !.maxParams = mp]
        t1    == [t EXCEPT ![n].children = <<Len(t) + 1>>,
                           ![n].indices = <<At(old.path, i)>>,
                           ![n].path = Slice(path, 0, i),
                           ![n].handlers = 0,
                           ![n].wildChild = FALSE,
                           ![n].fullPath = Slice(fullPath, 0, parentFullPathIndex + i)]
    IN  Append(t1, child)

\* position of the first index byte equal to c, or -1
RECURSIVE indexOf(_, _, _)
indexOf(indices, c, i) ==
    IF i >= Len(indices) THEN -1
    ELSE IF At(indices, i) = c THEN i
    ELSE indexOf(indices, c, i + 1)

insertNew(t, n, numParams, path, fullPath, handlers) ==
    LET c == At(path, 0)
    IN  IF ~IsWild(c)
        THEN LET child == Len(t) + 1
                 cnode == [NewNode EXCEPT !.maxParams = numParams,
                                          !.fullPath = fullPath]
                 t1    == Append([t EXCEPT ![n].indices = Append(@, c),
                                           ![n].children = Append(@, child)],
                                 cnode)
                 pos   == Len(t1[n].indices) - 1
             IN  IF pos >= Len(t1[n].children) THEN Panic(t1)
                 ELSE insertChild(incrementChildPrio(t1, n, pos).t, child,
                                  numParams, path, fullPath, handlers)
        ELSE insertChild(t, n, numParams, path, fullPath, handlers)

RECURSIVE walk(_, _, _, _, _, _, _)
walkDown(t, n, path, fullPath, numParams, parentFullPathIndex, handlers) ==
    LET c   == At(path, 0)
        pfi == parentFullPathIndex + Len(t[n].path)
        k   == indexOf(t[n].indices, c, 0)
    IN  IF t[n].nType = "param" /\ c = "/" /\ Len(t[n].children) = 1
        THEN LET ch == At(t[n].children, 0)
             IN  walk([t EXCEPT ![ch].priority = @ + 1], ch, path, fullPath,
                      numParams, pfi, handlers)
        ELSE IF k >= 0
        THEN IF k >= Len(t[n].children) THEN Panic(t)
             ELSE LET r == incrementChildPrio(t, n, k)
                  IN  walk(r.t, At(r.t[n].children, r.newPos), path, fullPath,
                           numParams, pfi, handlers)
        ELSE insertNew(t, n, numParams, path, fullPath, handlers)

\* walkWild without the comparison of the wildcard names
walkWildAnyName(t, n, path, fullPath, numParams, parentFullPathIndex, handlers) ==
    LET c  == At(t[n].children, 0)
        t1 == [t EXCEPT ![c].priority = @ + 1,
                        ![c].maxParams = Max(@, numParams)]
        np == (numParams - 1) % 256
    IN  walk(t1, c, path, fullPath, np,
             parentFullPathIndex + Len(t[n].path), handlers)

\* walkWild without the check for a longer wildcard name
walkWildPrefixOnly(t, n, path, fullPath, numParams, parentFullPathIndex, handlers) ==
    LET c  == At(t[n].children, 0)
        t1 == [t EXCEPT ![c].priority = @ + 1,
                        ![c].maxParams = Max(@, numParams)]
        np == (numParams - 1) % 256
        cp == t1[c].path
    IN  IF Len(path) >= Len(cp) /\ cp = Slice(path, 0, Len(cp))
        THEN walk(t1, c, path, fullPath, np,
                  parentFullPathIndex + Len(t[n].path), handlers)
        ELSE Panic(t1)

\* walkWild that lets a static byte pass the wildcard child and be looked up
\* among the node's indices
walkWildStaticBeside(t, n, path, fullPath, numParams, parentFullPathIndex, handlers) ==
    LET c  == At(t[n].children, 0)
        t1 == [t EXCEPT ![c].priority = @ + 1,
                        ![c].maxParams = Max(@, numParams)]
        np == (numParams - 1) % 256
        cp == t1[c].path
    IN  IF ~IsWild(At(path, 0))
        THEN walkDown(t, n, path, fullPath, numParams, parentFullPathIndex, handlers)
        ELSE IF /\ Len(path) >= Len(cp)
                /\ cp = Slice(path, 0, Len(cp))
                /\ (Len(cp) >= Len(path) \/ At(path, Len(cp)) = "/")
        THEN walk(t1, c, path, fullPath, np,
                  parentFullPathIndex + Len(t[n].path), handlers)
        ELSE Panic(t1)

\* walkWild that leaves the maxParams of the wildcard child as it is
walkWildKeepMaxParams(t, n, path, fullPath, numParams, parentFullPathIndex, handlers) ==
    LET c  == At(t[n].children, 0)
        t1 == [t EXCEPT ![c].priority = @ + 1]
        np == (numParams - 1) % 256
        cp == t1[c].path
    IN  IF /\ Len(path) >= Len(cp)
           /\ cp = Slice(path, 0, Len(cp))
           /\ (Len(cp) >= Len(path) \/ At(path, Len(cp)) = "/")
        THEN walk(t1, c, path, fullPath, np,
                  parentFullPathIndex + Len(t[n].path), handlers)
        ELSE Panic(t1)

walkWild(t, n, path, fullPath, numParams, parentFullPathIndex, handlers) ==
    LET c  == At(t[n].children, 0)
        t1 == [t EXCEPT ![c].priority = @ + 1,
                        ![c].maxParams = Max(@, numParams)]
        np == (numParams - 1) % 256
        cp == t1[c].path
    IN  IF /\ Len(path) >= Len(cp)
           /\ cp = Slice(path, 0, Len(cp))
           /\ (Len(cp) >= Len(path) \/ At(path, Len(cp)) = "/")
        THEN walk(t1, c, path, fullPath, np,
                  parentFullPathIndex + Len(t[n].path), handlers)
        ELSE Panic(t1)

\* attach that overwrites the handlers of a node that has some
attachOverwrite(t, n, handlers) == Done([t EXCEPT ![n].handlers = handlers])

\* the end of the walk: the pattern names this node
attach(t, n, handlers) ==
    IF t[n].handlers # 0 THEN Panic(t)
    ELSE Done([t EXCEPT ![n].handlers = handlers])

walk(t, n, path, fullPath, numParams, parentFullPathIndex, handlers) ==
    LET t1 == [t EXCEPT ![n].maxParams = Max(@, numParams)]
        i  == longestCommonPrefix(path, t1[n].path)
        t2 == IF i < Len(t1[n].path)
              THEN splitEdge(t1, n, path, fullPath, parentFullPathIndex, i)
              ELSE t1
    IN  IF i < Len(path)
        THEN IF t2[n].wildChild
             THEN walkWild(t2, n, From(path, i), fullPath, numParams,
                           parentFullPathIndex, handlers)
             ELSE walkDown(t2, n, From(path, i), fullPath, numParams,
                           parentFullPathIndex, handlers)
        ELSE attach(t2, n, handlers)

addRoute(t, path, handlers) ==
    LET t1        == [t EXCEPT ![1].priority = @ + 1]
        numParams == countParams(path)
    IN  IF Len(t1[1].path) = 0 /\ Len(t1[1].children) = 0
        THEN LET r == insertChild(t1, 1, numParams, path, path, handlers)
             IN  IF r.ok THEN Done([r.t EXCEPT ![1].nType = "root"]) ELSE r
        ELSE walk(t1, 1, path, path, numParams, 0, handlers)

\* Centre.addRoute: the method's tree is created on first use
CentreAddRoute(t, path, handlers) ==
    IF Len(path) = 0 \/ At(path, 0) # "/" \/ handlers = 0 THEN Panic(t)
    ELSE addRoute(IF t = <<>> THEN <<[NewNode EXCEPT !.fullPath = <<"/">>]>> ELSE t,
                  path, handlers)

(***************************************************************************)
(* url.QueryUnescape as node.getValue uses it: "%xy" with two hex digits   *)
(* is one byte, '+' is a space, any other '%' is an error.                 *)
(***************************************************************************)
HexDigits == {"0", "1", "2", "3", "4", "5", "6", "7", "8", "9",
              "a", "b", "c", "d", "e", "f", "A", "B", "C", "D", "E", "F"}

\* the byte that "%xy" stands for, as a one-character string where it is printable
unhexPair(x, y) ==
    IF x = "2" /\ y \in {"f", "F"} THEN "/"
    ELSE IF x = "2" /\ y \in {"b", "B"} THEN "+"
    ELSE IF x = "2" /\ y \in {"a", "A"} THEN "*"
    ELSE IF x = "3" /\ y \in {"a", "A"} THEN ":"
    ELSE IF x = "2" /\ y = "5" THEN "%"
    ELSE IF x = "6" /\ y = "1" THEN "a"
    ELSE IF x = "6" /\ y = "2" THEN "b"
    ELSE "\\x" \o x \o y

RECURSIVE escapesValid(_, _)
escapesValid(s, i) ==
    IF i >= Len(s) THEN TRUE
    ELSE IF At(s, i) = "%"
    THEN /\ i + 2 < Len(s)
         /\ At(s, i + 1) \in HexDigits
         /\ At(s, i + 2) \in HexDigits
         /\ escapesValid(s, i + 3)
    ELSE escapesValid(s, i + 1)

RECURSIVE unescapeFrom(_, _)
unescapeFrom(s, i) ==
    IF i >= Len(s) THEN <<>>
    ELSE IF At(s, i) = "%"
    THEN <<unhexPair(At(s, i + 1), At(s, i + 2))>> \o unescapeFrom(s, i + 3)
    ELSE IF At(s, i) = "+" THEN <<" ">> \o unescapeFrom(s, i + 1)
    ELSE <<At(s, i)>> \o unescapeFrom(s, i + 1)

QueryUnescape(s) ==
    IF escapesValid(s, 0) THEN [val |-> unescapeFrom(s, 0), err |-> FALSE]
    ELSE [val |-> <<>>, err |-> TRUE]

\* the value stored for a capture: decoded when asked, the raw bytes when decoding fails
captured(val, unescape) ==
    IF unescape
    THEN LET r == QueryUnescape(val) IN IF r.err THEN val ELSE r.val
    ELSE val

(***************************************************************************)
(* getValue.  The result carries, next to the fields of nodeValue, the     *)
(* capacity of the params slice, whether getValue replaced the caller's    *)
(* buffer by a new one, whether the call ended in a run-time panic,        *)
(* whether the walk ended in the catchAll case of its switch, the number   *)
(* of rounds of the walk loop the call made, the number of buffers it      *)
(* allocated and the number of captures it had saved in a buffer that it   *)
(* then replaced.                                                          *)
(***************************************************************************)
NoValue ==
    [handlers |-> 0, params |-> <<>>, tsr |-> FALSE, fullPath |-> <<>>,
     cap |-> 0, realloc |-> FALSE, panicked |-> FALSE, catchAll |-> FALSE,
     rounds |-> 0, allocs |-> 0, lost |-> 0]

\* saveParam that puts the new capture before the ones already saved
saveParamFront(v, maxParams, key, val) ==
    LET v1 == IF v.cap < maxParams
              THEN [v EXCEPT !.params = <<>>, !.cap = maxParams, !.realloc = TRUE]
              ELSE v
    IN  IF Len(v1.params) + 1 > v1.cap
        THEN [v1 EXCEPT !.panicked = TRUE]
        ELSE [v1 EXCEPT !.params = <<[Key |-> key, Value |-> val]>> \o @]

\* saveParam that allocates unless the buffer is larger than maxParams
saveParamEagerAlloc(v, maxParams, key, val) ==
    LET v1 == IF v.cap <= maxParams
              THEN [v EXCEPT !.params = <<>>, !.cap = maxParams, !.realloc = TRUE]
              ELSE v
    IN  IF Len(v1.params) + 1 > v1.cap
        THEN [v1 EXCEPT !.panicked = TRUE]
        ELSE [v1 EXCEPT !.params = Append(@, [Key |-> key, Value |-> val])]

\* saveParam that never allocates: it extends the buffer it was given
saveParamNoAlloc(v, maxParams, key, val) ==
    IF Len(v.params) + 1 > v.cap
    THEN [v EXCEPT !.panicked = TRUE]
    ELSE [v EXCEPT !.params = Append(@, [Key |-> key, Value |-> val])]

\* value.params = value.params[:i+1] with Key and Value set, after the capacity check
saveParam(v, maxParams, key, val) ==
    LET v1 == IF v.cap < maxParams
              THEN [v EXCEPT !.params = <<>>, !.cap = maxParams, !.realloc = TRUE,
                             !.allocs = @ + 1, !.lost = @ + Len(v.params)]
              ELSE v
    IN  IF Len(v1.params) + 1 > v1.cap
        THEN [v1 EXCEPT !.panicked = TRUE]
        ELSE [v1 EXCEPT !.params = Append(@, [Key |-> key, Value |-> val])]

RECURSIVE getValueWalk(_, _, _, _, _)
\* getValueAtNode that looks for the trailing-slash child before it returns
\* the node's handlers
getValueAtNodeTsrFirst(t, n, path, v) ==
    LET k  == indexOf(t[n].indices, "/", 0)
        v1 == IF k >= 0 /\ k < Len(t[n].children)
              THEN LET c == At(t[n].children, k)
                   IN  [v EXCEPT !.tsr = (Len(t[c].path) = 1 /\ t[c].handlers # 0)]
              ELSE v
    IN  IF t[n].handlers # 0
        THEN [v1 EXCEPT !.handlers = t[n].handlers, !.fullPath = t[n].fullPath]
        ELSE IF path = <<"/">> /\ t[n].wildChild /\ t[n].nType # "root"
        THEN [v EXCEPT !.tsr = TRUE]
        ELSE v1

getValueAtNode(t, n, path, v) ==
    IF t[n].handlers # 0
    THEN [v EXCEPT !.handlers = t[n].handlers, !.fullPath = t[n].fullPath]
    ELSE IF path = <<"/">> /\ t[n].wildChild /\ t[n].nType # "root"
    THEN [v EXCEPT !.tsr = TRUE]
    ELSE LET k == indexOf(t[n].indices, "/", 0)
         IN  IF k < 0 THEN v
             ELSE IF k >= Len(t[n].children) THEN [v EXCEPT !.panicked = TRUE]
             ELSE LET c == At(t[n].children, k)
                  IN  IF Len(t[c].path) = 1 /\ t[c].handlers # 0
                      THEN [v EXCEPT !.tsr = TRUE]
                      ELSE IF t[c].nType # "catchAll" THEN v
                      ELSE IF Len(t[c].children) = 0
                      THEN [v EXCEPT !.panicked = TRUE]
                      ELSE [v EXCEPT !.tsr = t[At(t[c].children, 0)].handlers # 0]

getValueParam(t, n, path, v0, unescape) ==
    LET end == firstSlash(path, 0)
        v   == saveParam(v0, t[n].maxParams, From(t[n].path, 1),
                         captured(Slice(path, 0, end), unescape))
    IN  IF v.panicked THEN v
        ELSE IF end < Len(path)
        THEN IF Len(t[n].children) > 0
             THEN getValueWalk(t, At(t[n].children, 0), From(path, end), v, unescape)
             ELSE [v EXCEPT !.tsr = (Len(path) = end + 1)]
        ELSE IF t[n].handlers # 0
        THEN [v EXCEPT !.handlers = t[n].handlers, !.fullPath = t[n].fullPath]
        ELSE IF Len(t[n].children) = 1
        THEN LET c == At(t[n].children, 0)
             IN  [v EXCEPT !.tsr = (t[c].path = <<"/">> /\ t[c].handlers # 0)]
        ELSE v

\* getValueCatchAll that stops the value at the next '/', as a param does
getValueCatchAllOneSegment(t, n, path, v0, unescape) ==
    IF Len(t[n].path) < 2 THEN [v0 EXCEPT !.panicked = TRUE]
    ELSE LET v == saveParam(v0, t[n].maxParams, From(t[n].path, 2),
                            captured(Slice(path, 0, firstSlash(path, 1)), unescape))
         IN  IF v.panicked THEN v
             ELSE [v EXCEPT !.handlers = t[n].handlers, !.fullPath = t[n].fullPath,
                            !.catchAll = TRUE]

getValueCatchAll(t, n, path, v0, unescape) ==
    IF Len(t[n].path) < 2 THEN [v0 EXCEPT !.panicked = TRUE]
    ELSE LET v == saveParam(v0, t[n].maxParams, From(t[n].path, 2),
                            captured(path, unescape))
         IN  IF v.panicked THEN v
             ELSE [v EXCEPT !.handlers = t[n].handlers, !.fullPath = t[n].fullPath,
                            !.catchAll = TRUE]

getValueWalk(t, n, path0, v0, unescape) ==
    LET prefix == t[n].path
        v      == [v0 EXCEPT !.rounds = @ + 1]
    IN  IF path0 = prefix THEN getValueAtNode(t, n, path0, v)
        ELSE IF Len(path0) > Len(prefix) /\ Slice(path0, 0, Len(prefix)) = prefix
        THEN LET path == From(path0, Len(prefix))
             IN  IF ~t[n].wildChild
                 THEN LET k == indexOf(t[n].indices, At(path, 0), 0)
                      IN  IF k >= 0
                          THEN IF k >= Len(t[n].children)
                               THEN [v EXCEPT !.panicked = TRUE]
                               ELSE getValueWalk(t, At(t[n].children, k), path, v,
                                                 unescape)
                          ELSE [v EXCEPT !.tsr = (path = <<"/">> /\ t[n].handlers # 0)]
                 ELSE IF Len(t[n].children) = 0 THEN [v EXCEPT !.panicked = TRUE]
                 ELSE LET c == At(t[n].children, 0)
                      IN  CASE t[c].nType = "param" ->
                                 getValueParam(t, c, path, v, unescape)
                            [] t[c].nType = "catchAll" ->
                                 getValueCatchAll(t, c, path, v, unescape)
                            [] OTHER -> [v EXCEPT !.panicked = TRUE]
        ELSE [v EXCEPT !.tsr =
                \/ path0 = <<"/">>
                \/ /\ Len(prefix) = Len(path0) + 1
                   /\ At(prefix, Len(path0)) = "/"
                   /\ path0 = Slice(prefix, 0, Len(prefix) - 1)
                   /\ t[n].handlers # 0]

\* po is the caller's buffer: its entries and its capacity
getValue(t, path, po, unescape) ==
    getValueWalk(t, 1, path, [NoValue EXCEPT !.params = po.params, !.cap = po.cap],
                 unescape)

(***************************************************************************)
(* The inputs: the patterns registered, and the request paths looked up.   *)
(***************************************************************************)
Patterns ==
    { <<"/">>,
      <<"/", "a">>,
      <<"/", "a", "/">>,
      <<"/", "a", "b">>,
      <<"/", "a", "/", "b">>,
      <<"/", ":", "x">>,
      <<"/", ":", "y">>,
      <<"/", ":", "x", "y">>,
      <<"/", "a", "/", ":", "x">>,
      <<"/", "a", "/", ":", "y", "/", "b">>,
      <<"/", "a", "/", ":", "x", "/", "b">>,
      <<"/", "*", "x">>,
      <<"/", "a", "/", "*", "x">>,
      <<"/", ":", "x", "/", "*", "y">> }

PathAlphabet == {"/", "a", "b"}

RECURSIVE PathsUpTo(_)
PathsUpTo(n) ==
    IF n <= 1 THEN {<<"/">>}
    ELSE LET shorter == PathsUpTo(n - 1)
         IN  shorter \cup {Append(q, c) : q \in shorter, c \in PathAlphabet}

\* request paths that carry percent-escapes or '+'
EscapedPaths ==
    { <<"/", "+">>, <<"/", "%", "2", "f">>, <<"/", "%", "a">>,
      <<"/", "a", "/", "%", "6", "1">> }

\* longer request paths that reach the deepest registered patterns
DeepPaths ==
    { <<"/", "a", "/", "b">>, <<"/", "a", "/", "b", "/">>,
      <<"/", "a", "/", "a">>, <<"/", "a", "/", "a", "/">>,
      <<"/", "a", "/", "a", "/", "b">>, <<"/", "a", "/", "a", "/", "b", "/">>,
      <<"/", "a", "/", "/", "b">>, <<"/", "b", "/", "a", "/", "b">> }

RequestPaths == PathsUpTo(MaxPathLen) \cup EscapedPaths \cup DeepPaths

(***************************************************************************)
(* The state machine.  nodes is the tree of one method (empty until the    *)
(* first registration), calls the registrations made so far with their     *)
(* outcome, value the result of the lookup in progress and req its input.  *)
(* centre is the Centre as New returns it, with the trees of all methods,  *)
(* and context the Context of the request being served; the               *)
(* specifications that drive one tree directly leave both as they are.     *)
(***************************************************************************)
NewCentre ==
    [Handlers |-> <<>>, noRoute |-> <<>>, noMethod |-> <<>>,
     allNoRoute |-> <<>>, allNoMethod |-> <<>>,
     RedirectTrailingSlash |-> TRUE, HandleMethodNotAllowed |-> FALSE,
     trees |-> <<>>]

\* the Context after reset; outcome tells what handleHTTPRequest did with it,
\* status is the code it chose, 0 while it has chosen none
NoContext ==
    [handlers |-> <<>>, Params |-> <<>>, fullPath |-> <<>>, status |-> 0,
     location |-> <<>>, outcome |-> "none"]

NoReq == [path |-> <<>>, cap |-> 0, unescape |-> FALSE]

Init ==
    /\ nodes = <<>>
    /\ calls = <<>>
    /\ value = NoValue
    /\ req = NoReq
    /\ op = "idle"
    /\ centre = NewCentre
    /\ context = NoContext

AddRoute(p) ==
    /\ op = "idle"
    /\ Len(calls) < MaxCalls
    /\ LET r == CentreAddRoute(nodes, p, Len(calls) + 1)
       IN  /\ nodes' = r.t
           /\ calls' = Append(calls, [path |-> p, ok |-> r.ok])
    /\ UNCHANGED <<value, req, op, centre, context>>

\* GetValue that counts the visit in the root's priority, as addRoute does
GetValueCountingVisit(path, cap, unescape) ==
    /\ op = "idle"
    /\ nodes # <<>>
    /\ value' = getValue(nodes, path, [params |-> <<>>, cap |-> cap], unescape)
    /\ req' = [path |-> path, cap |-> cap, unescape |-> unescape]
    /\ op' = "getValue"
    /\ nodes' = [nodes EXCEPT ![1].priority = @ + 1]
    /\ UNCHANGED <<calls, centre, context>>

GetValue(path, cap, unescape) ==
    /\ op = "idle"
    /\ nodes # <<>>
    /\ value' = getValue(nodes, path, [params |-> <<>>, cap |-> cap], unescape)
    /\ req' = [path |-> path, cap |-> cap, unescape |-> unescape]
    /\ op' = "getValue"
    /\ UNCHANGED <<nodes, calls, centre, context>>

Reset ==
    /\ op = "getValue"
    /\ value' = NoValue
    /\ req' = NoReq
    /\ op' = "idle"
    /\ UNCHANGED <<nodes, calls, centre, context>>

Next ==
    \/ \E p \in Patterns : AddRoute(p)
    \/ \E path \in RequestPaths, cap \in 0..MaxCap, unescape \in BOOLEAN :
          GetValue(path, cap, unescape)
    \/ Reset

Spec == Init /\ [][Next]_vars

(***************************************************************************)
(* Vocabulary of the properties.                                           *)
(***************************************************************************)
\* every registration made so far succeeded
AllOk == \A k \in 1..Len(calls) : calls[k].ok

Looked == op = "getValue"

\* What a request path must look like to be an instance of a pattern, and the
\* captures it then carries: a :name stands for a non-empty run without '/',
\* a trailing /*name for the rest of the path from its '/' on.
RECURSIVE instance(_, _, _, _)
instance(p, i, path, j) ==
    IF i >= Len(p) THEN [ok |-> j = Len(path), caps |-> <<>>]
    ELSE IF At(p, i) = "/" /\ i + 1 < Len(p) /\ At(p, i + 1) = "*"
    THEN [ok   |-> j < Len(path) /\ At(path, j) = "/",
          caps |-> <<[Key |-> From(p, i + 2), Value |-> From(path, j)]>>]
    ELSE IF At(p, i) = ":"
    THEN LET pe   == firstSlash(p, i)
             e    == firstSlash(path, j)
             rest == instance(p, pe, path, e)
         IN  [ok   |-> e > j /\ rest.ok,
              caps |-> <<[Key |-> Slice(p, i + 1, pe), Value |-> Slice(path, j, e)]>>
                          \o rest.caps]
    ELSE IF j < Len(path) /\ At(path, j) = At(p, i)
    THEN instance(p, i + 1, path, j + 1)
    ELSE [ok |-> FALSE, caps |-> <<>>]

Instance(p, path) == instance(p, 0, path, 0)

\* C1 as stated: on a tree built by successful registrations, looking up an
\* instance of a registered pattern returns that pattern's chain and, as params,
\* exactly the substituted values under the capture names, in declaration order.
C1_RoundTripAnyLookup ==
    (Looked /\ AllOk) =>
        \A k \in 1..Len(calls) :
            LET m == Instance(calls[k].path, req.path)
            IN  m.ok => (value.handlers = k /\ value.params = m.caps)

\* C1 amended: the same, the values being the substituted values as getValue is
\* asked to store them: raw when unescape is off, percent-decoded when it is on
\* (raw again when decoding fails).
C1_RoundTrip ==
    (Looked /\ AllOk) =>
        \A k \in 1..Len(calls) :
            LET m == Instance(calls[k].path, req.path)
            IN  m.ok =>
                  /\ ~value.panicked
                  /\ value.handlers = k
                  /\ Len(value.params) = Len(m.caps)
                  /\ \A c \in 1..Len(m.caps) :
                        /\ value.params[c].Key = m.caps[c].Key
                        /\ ~req.unescape => value.params[c].Value = m.caps[c].Value
                        /\ req.unescape =>
                              LET d == QueryUnescape(m.caps[c].Value)
                              IN  value.params[c].Value =
                                     IF d.err THEN m.caps[c].Value ELSE d.val

\* a lookup of an instance of a two-capture pattern has returned its chain
C1_Witness ==
    /\ Looked /\ AllOk
    /\ \E k \in 1..Len(calls) :
          /\ Len(Instance(calls[k].path, req.path).caps) = 2
          /\ Instance(calls[k].path, req.path).ok
          /\ value.handlers = k
          /\ Len(value.params) = 2

SamePattern(i, j) == calls[i].path = calls[j].path

\* C2: a pattern registered successfully is rejected when registered again on
\* the same tree, whatever was registered in between, and a lookup of an
\* instance of the pattern still returns the chain of the first registration.
C2_DuplicateRejected ==
    \A i \in 1..Len(calls) :
        (calls[i].ok /\ \E j \in (i + 1)..Len(calls) : SamePattern(i, j)) =>
            /\ \A j \in (i + 1)..Len(calls) : SamePattern(i, j) => ~calls[j].ok
            /\ (Looked /\ Instance(calls[i].path, req.path).ok) => value.handlers = i

\* a pattern was registered, another route after it, then the pattern again, and
\* an instance of it has been looked up
C2_Witness ==
    /\ Looked
    /\ Len(calls) = 3
    /\ calls[1].ok /\ calls[2].ok /\ ~calls[3].ok
    /\ SamePattern(1, 3) /\ ~SamePattern(1, 2)
    /\ Instance(calls[1].path, req.path).ok
    /\ value.handlers = 1

\* the patterns agree up to a position where p has a wildcard and q a static byte
StaticWildClash(p, q) ==
    \E k \in 0..(min(Len(p), Len(q)) - 1) :
        /\ Slice(p, 0, k) = Slice(q, 0, k)
        /\ IsWild(At(p, k))
        /\ ~IsWild(At(q, k))

\* C3: when a static segment and a wildcard segment would sit at the same tree
\* position, the later of the two registrations fails, whichever came first.
C3_StaticWildcardExclusive ==
    \A i \in 1..Len(calls) : \A j \in (i + 1)..Len(calls) :
        (calls[i].ok /\ (\/ StaticWildClash(calls[i].path, calls[j].path)
                         \/ StaticWildClash(calls[j].path, calls[i].path)))
            => ~calls[j].ok

\* /a/b is registered and /a/:x, whose capture would sit where b is, was refused
C3_Witness ==
    /\ Len(calls) = 2 /\ calls[1].ok /\ ~calls[2].ok
    /\ StaticWildClash(calls[2].path, calls[1].path)
    /\ calls[1].path = <<"/", "a", "/", "b">>
    /\ calls[2].path = <<"/", "a", "/", ":", "x">>

\* the wildcard segment that starts at position k of p
WildSeg(p, k) == Slice(p, k, firstSlash(p, k))

\* p has a :name capture where q, equal up to there, has a wildcard of another name
NameMismatch(p, q) ==
    \E k \in 0..(min(Len(p), Len(q)) - 1) :
        /\ Slice(p, 0, k) = Slice(q, 0, k)
        /\ At(p, k) = ":"
        /\ IsWild(At(q, k))
        /\ WildSeg(p, k) # WildSeg(q, k)

\* C4: once a pattern with a capture :a is registered, registering a pattern
\* whose wildcard at the same position has another name fails, also when one
\* name extends the other.
C4_NameMismatchRejected ==
    \A i \in 1..Len(calls) : \A j \in (i + 1)..Len(calls) :
        (calls[i].ok /\ NameMismatch(calls[i].path, calls[j].path)) => ~calls[j].ok

\* :x is registered and :xy, which extends it, was refused
C4_Witness ==
    /\ Len(calls) >= 2
    /\ calls[1].path = <<"/", ":", "x">> /\ calls[1].ok
    /\ calls[2].path = <<"/", ":", "x", "y">> /\ ~calls[2].ok

PatAX == <<"/", "a", "/", ":", "x">>

PatAYB == <<"/", "a", "/", ":", "y", "/", "b">>

PatAXB == <<"/", "a", "/", ":", "x", "/", "b">>

\* C5 as stated: /a/:x and then /a/:y/b both register.
C5_DivergingCapturesBothRegister ==
    (Len(calls) >= 2 /\ calls[1].path = PatAX /\ calls[2].path = PatAYB) =>
        (calls[1].ok /\ calls[2].ok)

\* C5 amended: after /a/:x, registering /a/:y/b fails and /a/v still returns the
\* first chain; with the same capture name, /a/:x and then /a/:x/b both succeed,
\* /a/v then returns the first chain and /a/v/b the second.
C5_SameNameDiverges ==
    (Len(calls) = 2 /\ calls[1].path = PatAX) =>
        /\ calls[1].ok
        /\ calls[2].path = PatAYB =>
              /\ ~calls[2].ok
              /\ (Looked /\ Instance(PatAX, req.path).ok) => value.handlers = 1
        /\ calls[2].path = PatAXB =>
              /\ calls[2].ok
              /\ (Looked /\ Instance(PatAX, req.path).ok) => value.handlers = 1
              /\ (Looked /\ Instance(PatAXB, req.path).ok) => value.handlers = 2

C5_Witness ==
    /\ Looked /\ Len(calls) = 2
    /\ calls[1].path = PatAX /\ calls[2].path = PatAXB
    /\ Instance(PatAXB, req.path).ok
    /\ value.handlers = 2

IsStatic(p) == countParams(p) = 0

EndsInSlash(p) == Len(p) > 0 /\ At(p, Len(p) - 1) = "/"

\* the path with its trailing '/' removed, or with one added when it has none
Toggle(path) ==
    IF EndsInSlash(path) THEN Slice(path, 0, Len(path) - 1) ELSE Append(path, "/")

\* the two paths differ by nothing, or by one trailing '/'
Related(path, p) == path = p \/ path = Append(p, "/") \/ p = Append(path, "/")

\* C6: on a tree holding one static route, looking up the route with one
\* trailing '/' added (the route has none) or removed (it has one) returns no
\* handlers and tsr = true, and looking up a path that differs from the route by
\* more than a trailing slash returns no handlers and tsr = false.
C6_SingleStaticTSR ==
    (Looked /\ Len(calls) = 1 /\ calls[1].ok /\ IsStatic(calls[1].path)) =>
        LET p == calls[1].path
        IN  /\ (~EndsInSlash(p) /\ req.path = Append(p, "/")) =>
                  (value.handlers = 0 /\ value.tsr)
            /\ (EndsInSlash(p) /\ p = Append(req.path, "/")) =>
                  (value.handlers = 0 /\ value.tsr)
            /\ ~Related(req.path, p) => (value.handlers = 0 /\ ~value.tsr)

\* what the code keeps of C6: the same, with the request path "/" left out of
\* the unrelated paths
C6_SingleStaticTSRExceptRoot ==
    (Looked /\ Len(calls) = 1 /\ calls[1].ok /\ IsStatic(calls[1].path)) =>
        LET p == calls[1].path
        IN  /\ (~EndsInSlash(p) /\ req.path = Append(p, "/")) =>
                  (value.handlers = 0 /\ value.tsr)
            /\ (EndsInSlash(p) /\ p = Append(req.path, "/")) =>
                  (value.handlers = 0 /\ value.tsr)
            /\ (~Related(req.path, p) /\ req.path # <<"/">>) =>
                  (value.handlers = 0 /\ ~value.tsr)

EmptyBuf == [params |-> <<>>, cap |-> 0]

\* C7: on a tree built by successful registrations, tsr = true only if the
\* request path with its trailing slash toggled is matched by a route.
C7_TsrSound ==
    (Looked /\ AllOk /\ value.tsr) =>
        getValue(nodes, Toggle(req.path), EmptyBuf, req.unescape).handlers # 0

\* the pattern ends in a catch-all /*name
IsCatchAllPattern(p) ==
    \E k \in 1..(Len(p) - 2) :
        /\ At(p, k) = "*" /\ At(p, k - 1) = "/"
        /\ \A l \in (k + 1)..(Len(p) - 1) : At(p, l) # "/"

\* C8 as stated: with prefix/*name registered, a path that extends the prefix by
\* a remainder starting with '/' returns the catch-all's chain, and its last and
\* only new capture is name with the whole remainder as value.
C8_CatchAllRawRemainder ==
    Looked =>
        \A k \in 1..Len(calls) :
            LET p == calls[k].path
                m == Instance(p, req.path)
            IN  (calls[k].ok /\ IsCatchAllPattern(p) /\ m.ok) =>
                  /\ value.handlers = k
                  /\ value.params = m.caps

\* C8 amended: the same, the value being the whole remainder as getValue is asked
\* to store it: raw when unescape is off, percent-decoded when it is on (raw again
\* when decoding fails).
C8_CatchAllRemainder ==
    Looked =>
        \A k \in 1..Len(calls) :
            LET p == calls[k].path
                m == Instance(p, req.path)
                n == Len(m.caps)
            IN  (calls[k].ok /\ IsCatchAllPattern(p) /\ m.ok) =>
                  /\ value.handlers = k
                  /\ Len(value.params) = n
                  /\ value.params[n].Key = m.caps[n].Key
                  /\ At(m.caps[n].Value, 0) = "/"
                  /\ ~req.unescape => value.params[n].Value = m.caps[n].Value
                  /\ req.unescape =>
                        LET d == QueryUnescape(m.caps[n].Value)
                        IN  value.params[n].Value =
                               IF d.err THEN m.caps[n].Value ELSE d.val

\* /a/*x is registered and /a//b was looked up: x holds "//b"
C8_Witness ==
    /\ Looked
    /\ \E k \in 1..Len(calls) :
          calls[k].ok /\ calls[k].path = <<"/", "a", "/", "*", "x">> /\ value.handlers = k
    /\ req.path = <<"/", "a", "/", "/", "b">>
    /\ value.params = <<[Key |-> <<"x">>, Value |-> <<"/", "/", "b">>]>>

\* the largest number of captures of a registered route
MaxCaptures ==
    LET ns == {countParams(calls[k].path) : k \in {i \in 1..Len(calls) : calls[i].ok}}
    IN  IF ns = {} THEN 0 ELSE CHOOSE n \in ns : \A o \in ns : o <= n

C10_FullPathIsPattern ==
    (Looked /\ AllOk /\ value.handlers # 0) =>
        value.fullPath = calls[value.handlers].path

C19_HandlersXorTsr ==
    Looked =>
        /\ AllOk => ~(value.handlers # 0 /\ value.tsr)
        /\ value.catchAll => value.handlers # 0

\* a lookup has ended at a catch-all leaf and returned its chain
C19_Witness ==
    /\ Looked /\ AllOk
    /\ value.catchAll
    /\ value.handlers # 0
    /\ ~value.tsr

\* the node is a wildcard: a :name, or one of the two nodes of a /*name
IsWildcardNode(n) == nodes[n].nType \in {"param", "catchAll"}

\* the invariant C20 states of one node
IndexedLikeChildren(n) ==
    LET nd == nodes[n]
    IN  IF nd.wildChild
        THEN Len(nd.children) = 1 /\ IsWildcardNode(At(nd.children, 0))
        ELSE /\ Len(nd.indices) = Len(nd.children)
             /\ \A i \in 0..(Len(nd.children) - 1) :
                   LET cp == nodes[At(nd.children, i)].path
                   IN  Len(cp) > 0 /\ At(nd.indices, i) = At(cp, 0)

\* C20: after every successful insertion every node has as many index bytes
\* as children, indices[i] being the first byte of children[i].path, except
\* the nodes with wildChild set, which have exactly one child, the wildcard.
C20_IndicesMatchChildren ==
    AllOk => \A n \in 1..Len(nodes) : IndexedLikeChildren(n)

(***************************************************************************)
(* Registration of arbitrary patterns.  Every string over the bytes that   *)
(* matter to insertion ('/', the two wildcard sigils, two letters) that    *)
(* starts with '/' is handed to Centre.addRoute, well-formed or not, on    *)
(* the empty tree and on the tree an earlier such call left.               *)
(***************************************************************************)
PatternAlphabet == {"/", ":", "*", "a", "x"}

RECURSIVE AnyPatterns(_)
AnyPatterns(n) ==
    IF n <= 1 THEN {<<"/">>}
    ELSE LET shorter == AnyPatterns(n - 1)
         IN  shorter \cup {Append(q, c) : q \in shorter, c \in PatternAlphabet}

AddAnyRoute(p) ==
    /\ Len(calls) < MaxWildCalls
    /\ LET r == CentreAddRoute(nodes, p, Len(calls) + 1)
       IN  /\ nodes' = r.t
           /\ calls' = Append(calls, [path |-> p, ok |-> r.ok])
    /\ UNCHANGED <<value, req, op, centre, context>>

NextWild == \E p \in AnyPatterns(MaxAnyLen) : AddAnyRoute(p)

SpecWild == Init /\ [][NextWild]_vars

\* some ':' or '*' of p is followed by '/' or by the end of the pattern
HasUnnamedWildcard(p) ==
    \E k \in 0..(Len(p) - 1) :
        IsWild(At(p, k)) /\ (k + 1 = Len(p) \/ At(p, k + 1) = "/")

\* some '/'-delimited segment of p holds more than one ':' or '*'
HasDoubleWildcard(p) ==
    \E k \in 0..(Len(p) - 1) : \E l \in (k + 1)..(Len(p) - 1) :
        /\ IsWild(At(p, k)) /\ IsWild(At(p, l))
        /\ \A j \in (k + 1)..l : At(p, j) # "/"

\* C17: addRoute fails for every pattern in which some ':' or '*' has a
\* zero-length name or one segment holds more than one ':' or '*', whatever
\* routes the tree already holds.
C17_InvalidWildcardRejected ==
    \A k \in 1..Len(calls) :
        (HasUnnamedWildcard(calls[k].path) \/ HasDoubleWildcard(calls[k].path))
            => ~calls[k].ok

\* /:x is registered, and /:x/: , which reaches insertChild below the :x node,
\* was refused
C17_Witness ==
    /\ Len(calls) = 2
    /\ calls[1].path = <<"/", ":", "x">> /\ calls[1].ok
    /\ calls[2].path = <<"/", ":", "x", "/", ":">> /\ ~calls[2].ok

\* some *name of p is not the last element of p, or its '*' does not follow '/'
HasMisplacedCatchAll(p) ==
    \E k \in 0..(Len(p) - 1) :
        /\ At(p, k) = "*"
        /\ \/ firstSlash(p, k) < Len(p)
           \/ k = 0
           \/ At(p, k - 1) # "/"

\* C18: addRoute fails for every pattern in which a *name is not the final
\* element of the pattern or its '*' is not immediately preceded by '/'.
C18_MisplacedCatchAllRejected ==
    \A k \in 1..Len(calls) : HasMisplacedCatchAll(calls[k].path) => ~calls[k].ok

\* what the code keeps of C18: the same on an empty tree
C18_MisplacedCatchAllRejectedOnEmptyTree ==
    (Len(calls) >= 1 /\ HasMisplacedCatchAll(calls[1].path)) => ~calls[1].ok

(***************************************************************************)
(* findCaseInsensitivePath.  strings.EqualFold and unicode.ToLower are     *)
(* modelled on the bytes of the model's alphabet, where folding is the     *)
(* ASCII one.  The result carries, next to ciPath and found, whether the   *)
(* call ended in a run-time panic.                                         *)
(***************************************************************************)
ToLower(c) == IF c = "A" THEN "a" ELSE IF c = "B" THEN "b" ELSE c

\* EqualFold that compares the bytes as they are
EqualFoldExact(a, b) == a = b

EqualFold(a, b) ==
    /\ Len(a) = Len(b)
    /\ \A i \in 1..Len(a) : ToLower(a[i]) = ToLower(b[i])

NotFound(ciPath) == [ciPath |-> ciPath, found |-> FALSE, panicked |-> FALSE]

Found(ciPath) == [ciPath |-> ciPath, found |-> TRUE, panicked |-> FALSE]

Crashed(ciPath) == [ciPath |-> ciPath, found |-> FALSE, panicked |-> TRUE]

RECURSIVE findCaseInsensitivePathLoop(_, _, _, _, _)
\* len(path) == 0: the node the path names
findCaseAtNode(t, n, ciPath, fixTrailingSlash) ==
    IF t[n].handlers # 0 THEN Found(ciPath)
    ELSE IF ~fixTrailingSlash THEN NotFound(ciPath)
    ELSE LET k == indexOf(t[n].indices, "/", 0)
         IN  IF k < 0 THEN NotFound(ciPath)
             ELSE IF k >= Len(t[n].children) THEN Crashed(ciPath)
             ELSE LET c == At(t[n].children, k)
                  IN  IF Len(t[c].path) = 1 /\ t[c].handlers # 0
                      THEN Found(Append(ciPath, "/"))
                      ELSE IF t[c].nType # "catchAll" THEN NotFound(ciPath)
                      ELSE IF Len(t[c].children) = 0 THEN Crashed(ciPath)
                      ELSE IF t[At(t[c].children, 0)].handlers # 0
                      THEN Found(Append(ciPath, "/"))
                      ELSE NotFound(ciPath)

\* the range over n.indices from position i on: the first child whose index
\* byte folds to r and below which the path is found
RECURSIVE findCaseAmongChildren(_, _, _, _, _, _)
findCaseAmongChildren(t, n, path, ciPath, fixTrailingSlash, i) ==
    IF i >= Len(t[n].indices)
    THEN [ciPath   |-> ciPath,
          found    |-> fixTrailingSlash /\ path = <<"/">> /\ t[n].handlers # 0,
          panicked |-> FALSE]
    ELSE IF ToLower(At(path, 0)) # ToLower(At(t[n].indices, i))
    THEN findCaseAmongChildren(t, n, path, ciPath, fixTrailingSlash, i + 1)
    ELSE IF i >= Len(t[n].children) THEN Crashed(ciPath)
    ELSE LET out == findCaseInsensitivePathLoop(t, At(t[n].children, i), path, <<>>,
                                                fixTrailingSlash)
         IN  IF out.panicked THEN Crashed(ciPath)
             ELSE IF out.found THEN Found(ciPath \o out.ciPath)
             ELSE findCaseAmongChildren(t, n, path, ciPath, fixTrailingSlash, i + 1)

findCaseParam(t, n, path, ciPath0, fixTrailingSlash) ==
    LET end    == firstSlash(path, 0)
        ciPath == ciPath0 \o Slice(path, 0, end)
    IN  IF end < Len(path)
        THEN IF Len(t[n].children) > 0
             THEN findCaseInsensitivePathLoop(t, At(t[n].children, 0), From(path, end),
                                              ciPath, fixTrailingSlash)
             ELSE IF fixTrailingSlash /\ Len(path) = end + 1 THEN Found(ciPath)
             ELSE NotFound(ciPath)
        ELSE IF t[n].handlers # 0 THEN Found(ciPath)
        ELSE IF fixTrailingSlash /\ Len(t[n].children) = 1
        THEN LET c == At(t[n].children, 0)
             IN  IF t[c].path = <<"/">> /\ t[c].handlers # 0
                 THEN Found(Append(ciPath, "/"))
                 ELSE NotFound(ciPath)
        ELSE NotFound(ciPath)

\* after the loop: nothing found, the fix of the trailing slash
findCaseFixTrailingSlash(t, n, path, ciPath, fixTrailingSlash) ==
    IF ~fixTrailingSlash THEN NotFound(ciPath)
    ELSE IF path = <<"/">> THEN Found(ciPath)
    ELSE IF /\ Len(path) + 1 = Len(t[n].path)
            /\ At(t[n].path, Len(path)) = "/"
            /\ EqualFold(path, Slice(t[n].path, 0, Len(path)))
            /\ t[n].handlers # 0
    THEN Found(ciPath \o t[n].path)
    ELSE NotFound(ciPath)

\* one round of the loop, from its condition on
findCaseInsensitivePathLoop(t, n, path0, ciPath0, fixTrailingSlash) ==
    IF ~(/\ Len(path0) >= Len(t[n].path)
         /\ EqualFold(Slice(path0, 0, Len(t[n].path)), t[n].path))
    THEN findCaseFixTrailingSlash(t, n, path0, ciPath0, fixTrailingSlash)
    ELSE LET path   == From(path0, Len(t[n].path))
             ciPath == ciPath0 \o t[n].path
         IN  IF Len(path) = 0 THEN findCaseAtNode(t, n, ciPath, fixTrailingSlash)
             ELSE IF ~t[n].wildChild
             THEN findCaseAmongChildren(t, n, path, ciPath, fixTrailingSlash, 0)
             ELSE IF Len(t[n].children) = 0 THEN Crashed(ciPath)
             ELSE LET c == At(t[n].children, 0)
                  IN  CASE t[c].nType = "param" ->
                             findCaseParam(t, c, path, ciPath, fixTrailingSlash)
                        [] t[c].nType = "catchAll" -> Found(ciPath \o path)
                        [] OTHER -> Crashed(ciPath)

findCaseInsensitivePath(t, path, fixTrailingSlash) ==
    findCaseInsensitivePathLoop(t, 1, path, <<>>, fixTrailingSlash)

(***************************************************************************)
(* Case-insensitive lookup on trees whose routes differ in case.           *)
(***************************************************************************)
CasePatterns ==
    { <<"/">>,
      <<"/", "a">>,
      <<"/", "A">>,
      <<"/", "a", "b">>,
      <<"/", "a", "B">>,
      <<"/", "a", "/">>,
      <<"/", "A", "/", "b">>,
      <<"/", ":", "x">>,
      <<"/", "a", "/", ":", "x">>,
      <<"/", "a", "/", "*", "x">> }

CaseAlphabet == {"/", "a", "A", "b", "B"}

RECURSIVE CasePathsUpTo(_)
CasePathsUpTo(n) ==
    IF n <= 1 THEN {<<"/">>}
    ELSE LET shorter == CasePathsUpTo(n - 1)
         IN  shorter \cup {Append(q, c) : q \in shorter, c \in CaseAlphabet}

\* longer paths that reach the deepest pattern, in either case and with a
\* trailing slash
CaseDeepPaths ==
    { <<"/", "a", "/", "b", "/">>, <<"/", "A", "/", "B", "/">>,
      <<"/", "a", "/", "B", "/">>, <<"/", "A", "/", "b", "/">> }

CasePaths == CasePathsUpTo(MaxCaseLen) \cup CaseDeepPaths

AddCaseRoute(p) ==
    /\ op = "idle"
    /\ Len(calls) < MaxCaseCalls
    /\ LET r == CentreAddRoute(nodes, p, Len(calls) + 1)
       IN  /\ nodes' = r.t
           /\ calls' = Append(calls, [path |-> p, ok |-> r.ok])
    /\ UNCHANGED <<value, req, op, centre, context>>

FindCaseInsensitivePath(path, fixTrailingSlash) ==
    /\ op = "idle"
    /\ nodes # <<>>
    /\ value' = findCaseInsensitivePath(nodes, path, fixTrailingSlash)
    /\ req' = [path |-> path, fixTrailingSlash |-> fixTrailingSlash]
    /\ op' = "findCaseInsensitivePath"
    /\ UNCHANGED <<nodes, calls, centre, context>>

ReturnCase ==
    /\ op = "findCaseInsensitivePath"
    /\ value' = NoValue
    /\ req' = NoReq
    /\ op' = "idle"
    /\ UNCHANGED <<nodes, calls, centre, context>>

NextCase ==
    \/ \E p \in CasePatterns : AddCaseRoute(p)
    \/ \E path \in CasePaths, fixTrailingSlash \in BOOLEAN :
          FindCaseInsensitivePath(path, fixTrailingSlash)
    \/ ReturnCase

SpecCase == Init /\ [][NextCase]_vars

LookedCase == op = "findCaseInsensitivePath"

\* the two bytes are the same letter in either case, or the same byte
CaseTwin(x, y) == x = y \/ {x, y} = {"a", "A"} \/ {x, y} = {"b", "B"}

\* the paths are equal under ASCII case-insensitive comparison
SameIgnoringCase(p, q) ==
    Len(p) = Len(q) /\ \A i \in 1..Len(p) : CaseTwin(p[i], q[i])

\* C13: with a single static route p registered, findCaseInsensitivePath(q,
\* false) returns (p, true) for every q equal to p under ASCII case folding,
\* and with fixTrailingSlash = true the call on q + "/" returns (p, true) too.
C13_CaseRecoveryStatic ==
    (LookedCase /\ Len(calls) = 1 /\ calls[1].ok /\ IsStatic(calls[1].path)) =>
        LET p == calls[1].path
        IN  /\ (~req.fixTrailingSlash /\ SameIgnoringCase(req.path, p)) =>
                  (value.found /\ value.ciPath = p)
            /\ (/\ req.fixTrailingSlash
                /\ EndsInSlash(req.path)
                /\ SameIgnoringCase(Slice(req.path, 0, Len(req.path) - 1), p)) =>
                  (value.found /\ value.ciPath = p)

\* with only /aB registered, /Ab/ was looked up with fixTrailingSlash and
\* resolved to /aB
C13_Witness ==
    /\ LookedCase
    /\ Len(calls) = 1 /\ calls[1].ok
    /\ calls[1].path = <<"/", "a", "B">>
    /\ req.path = <<"/", "A", "b", "/">> /\ req.fixTrailingSlash
    /\ value.found /\ value.ciPath = <<"/", "a", "B">>

\* C14: on a tree built by successful registrations, whenever
\* findCaseInsensitivePath returns found = true, an exact getValue on the
\* returned path yields handlers.
C14_CaseRecoverySound ==
    (LookedCase /\ AllOk /\ value.found) =>
        getValue(nodes, value.ciPath, EmptyBuf, FALSE).handlers # 0

\* what the code keeps of C14: the same without the fix of the trailing slash
C14_CaseRecoverySoundNoFix ==
    (LookedCase /\ AllOk /\ value.found /\ ~req.fixTrailingSlash) =>
        getValue(nodes, value.ciPath, EmptyBuf, FALSE).handlers # 0

(***************************************************************************)
(* The Centre: middleware, the NoRoute and NoMethod chains, registration   *)
(* through the root Boarder, and the serving of a request.  A handler is   *)
(* a name; the chain stored in a tree under the number k is the chain the  *)
(* k-th registration passed to Centre.addRoute, calls[k].handlers.         *)
(***************************************************************************)
lastChar(str) == At(str, Len(str) - 1)

\* runs of '/' become one '/'
RECURSIVE collapseSlashes(_, _)
collapseSlashes(p, i) ==
    IF i >= Len(p) THEN <<>>
    ELSE IF At(p, i) = "/" /\ i + 1 < Len(p) /\ At(p, i + 1) = "/"
    THEN collapseSlashes(p, i + 1)
    ELSE <<At(p, i)>> \o collapseSlashes(p, i + 1)

\* path.Clean on paths that hold no "." and no ".." element
Clean(p) ==
    LET q == collapseSlashes(p, 0)
    IN  IF q = <<>> THEN <<".">>
        ELSE IF Len(q) > 1 /\ lastChar(q) = "/" THEN Slice(q, 0, Len(q) - 1)
        ELSE q

joinPaths(absolutePath, relativePath) ==
    IF relativePath = <<>> THEN absolutePath
    ELSE LET finalPath == Clean(absolutePath \o <<"/">> \o relativePath)
         IN  IF lastChar(relativePath) = "/" /\ lastChar(finalPath) # "/"
             THEN Append(finalPath, "/")
             ELSE finalPath

combineHandlers(boarderHandlers, handlers) ==
    IF Len(boarderHandlers) + Len(handlers) >= abortIndex
    THEN [chain |-> <<>>, ok |-> FALSE]
    ELSE [chain |-> boarderHandlers \o handlers, ok |-> TRUE]

rebuild404Handlers(ce) ==
    [ce EXCEPT !.allNoRoute = combineHandlers(ce.Handlers, ce.noRoute).chain]

rebuild405Handlers(ce) ==
    [ce EXCEPT !.allNoMethod = combineHandlers(ce.Handlers, ce.noMethod).chain]

\* methodTrees.get: the position of the method's tree, or 0
treeOf(trees, method) ==
    IF \E i \in 1..Len(trees) : trees[i].method = method
    THEN CHOOSE i \in 1..Len(trees) :
            /\ trees[i].method = method
            /\ \A j \in 1..(i - 1) : trees[j].method # method
    ELSE 0

\* Boarder.handle on the root boarder (basePath "/"): the trees after the
\* call, the absolute path and chain handed to Centre.addRoute, and whether
\* the call returned without a panic
handle(ce, httpMethod, relativePath, handlers, k) ==
    LET absolutePath == joinPaths(<<"/">>, relativePath)
        combined     == combineHandlers(ce.Handlers, handlers)
        i            == treeOf(ce.trees, httpMethod)
        r            == CentreAddRoute(IF i = 0 THEN <<>> ELSE ce.trees[i].root,
                                       absolutePath,
                                       IF Len(combined.chain) > 0 THEN k ELSE 0)
        ok           == combined.ok /\ httpMethod # "" /\ r.ok
        trees        == IF ~combined.ok \/ httpMethod = "" \/ r.t = <<>>
                        THEN ce.trees
                        ELSE IF i = 0
                        THEN Append(ce.trees, [method |-> httpMethod, root |-> r.t])
                        ELSE [ce.trees EXCEPT ![i].root = r.t]
    IN  [trees |-> trees, path |-> absolutePath, handlers |-> combined.chain,
         ok |-> ok]

\* redirectTrailingSlash, without an X-Forwarded-Prefix header: the path with
\* its trailing '/' removed, or with one added
redirectTrailingSlash(ctx, httpMethod, p) ==
    [ctx EXCEPT !.location = IF Len(p) > 1 /\ lastChar(p) = "/"
                             THEN Slice(p, 0, Len(p) - 1)
                             ELSE Append(p, "/"),
                !.status   = IF httpMethod # "GET" THEN StatusTemporaryRedirect
                             ELSE StatusMovedPermanently,
                !.outcome  = "redirect"]

\* serveError with handlers that write nothing themselves
serveError(ctx, handlers, code) ==
    [ctx EXCEPT !.handlers = handlers, !.status = code, !.outcome = "error"]

\* the loop over the other methods' trees, from tree i on
RECURSIVE allowedElsewhere(_, _, _, _)
allowedElsewhere(trees, httpMethod, rPath, i) ==
    IF i > Len(trees) THEN FALSE
    ELSE IF trees[i].method = httpMethod
    THEN allowedElsewhere(trees, httpMethod, rPath, i + 1)
    ELSE IF getValue(trees[i].root, rPath, EmptyBuf, FALSE).handlers # 0 THEN TRUE
    ELSE allowedElsewhere(trees, httpMethod, rPath, i + 1)

\* the end of handleHTTPRequest, reached when no tree answered the request
notFound(ce, ctx, httpMethod, rPath) ==
    IF ce.HandleMethodNotAllowed /\ allowedElsewhere(ce.trees, httpMethod, rPath, 1)
    THEN serveError(ctx, ce.allNoMethod, StatusMethodNotAllowed)
    ELSE serveError(ctx, ce.allNoRoute, StatusNotFound)

\* handleHTTPRequest with UseRawPath and RemoveExtraSlash off, on a Context
\* fresh from allocateContext and reset; chains maps a tree's chain number to
\* the chain
handleHTTPRequest(ce, chains, httpMethod, rPath) ==
    LET i == treeOf(ce.trees, httpMethod)
    IN  IF i = 0 THEN notFound(ce, NoContext, httpMethod, rPath)
        ELSE LET v == getValue(ce.trees[i].root, rPath, EmptyBuf, FALSE)
             IN  IF v.panicked THEN [NoContext EXCEPT !.outcome = "panic"]
                 ELSE IF v.handlers # 0
                 THEN [NoContext EXCEPT !.handlers = chains[v.handlers].handlers,
                                        !.Params   = v.params,
                                        !.fullPath = v.fullPath,
                                        !.outcome  = "route"]
                 ELSE IF httpMethod # "CONNECT" /\ rPath # <<"/">>
                 THEN IF v.tsr /\ ce.RedirectTrailingSlash
                      THEN redirectTrailingSlash(NoContext, httpMethod, rPath)
                      ELSE NoContext
                 ELSE notFound(ce, NoContext, httpMethod, rPath)

\* iterate that reports only the nodes without children
RECURSIVE iterateLeaves(_, _, _, _, _)
iterateLeaves(path0, method, routes, t, n) ==
    LET path == path0 \o t[n].path
        r1   == IF t[n].handlers # 0 /\ t[n].children = <<>>
                THEN Append(routes, [Method |-> method, Path |-> path,
                                     chain |-> t[n].handlers])
                ELSE routes
        kids == t[n].children
        below[j \in 0..Len(kids)] ==
            IF j = 0 THEN r1 ELSE iterateLeaves(path, method, below[j - 1], t, kids[j])
    IN  below[Len(kids)]

\* iterate: the routes of the subtree of n appended to routes; chain is the
\* number of the node's chain, whose last handler is the Route's HandlerFunc
RECURSIVE iterate(_, _, _, _, _)
iterate(path0, method, routes, t, n) ==
    LET path == path0 \o t[n].path
        r1   == IF t[n].handlers # 0
                THEN Append(routes, [Method |-> method, Path |-> path,
                                     chain |-> t[n].handlers])
                ELSE routes
        kids == t[n].children
        below[j \in 0..Len(kids)] ==
            IF j = 0 THEN r1 ELSE iterate(path, method, below[j - 1], t, kids[j])
    IN  below[Len(kids)]

Routes(ce) ==
    LET upTo[i \in 0..Len(ce.trees)] ==
            IF i = 0 THEN <<>>
            ELSE iterate(<<>>, ce.trees[i].method, upTo[i - 1], ce.trees[i].root, 1)
    IN  upTo[Len(ce.trees)]

(***************************************************************************)
(* The Centre as a state machine: configuration and registration calls in  *)
(* any order, and requests served in between.  calls holds the             *)
(* registrations with their method, absolute path, chain and outcome.      *)
(***************************************************************************)
Methods == {"GET", "CONNECT"}

RequestMethods == Methods \cup {"PUT"}

RelativePaths ==
    { <<"/", "a">>, <<"/", "b", "/">>, <<"/", ":", "x">>,
      <<"/", "a", "/", "*", "x">> }

HttpPaths ==
    { <<"/">>, <<"/", "a">>, <<"/", "a", "/">>, <<"/", "b">>, <<"/", "b", "/">>,
      <<"/", "a", "/", "b">> }

Middleware == {<<"m1">>, <<"m2">>}

Use(middleware) ==
    /\ op = "idle"
    /\ Len(centre.Handlers) < MaxUse
    /\ centre' = rebuild405Handlers(rebuild404Handlers(
                    [centre EXCEPT !.Handlers = @ \o middleware]))
    /\ UNCHANGED <<nodes, calls, value, req, op, context>>

NoRoute(handlers) ==
    /\ op = "idle"
    /\ centre' = rebuild404Handlers([centre EXCEPT !.noRoute = handlers])
    /\ UNCHANGED <<nodes, calls, value, req, op, context>>

NoMethod(handlers) ==
    /\ op = "idle"
    /\ centre' = rebuild405Handlers([centre EXCEPT !.noMethod = handlers])
    /\ UNCHANGED <<nodes, calls, value, req, op, context>>

\* the two exported fields that handleHTTPRequest reads
Configure(rts, hmna) ==
    /\ op = "idle"
    /\ centre' = [centre EXCEPT !.RedirectTrailingSlash = rts,
                                !.HandleMethodNotAllowed = hmna]
    /\ UNCHANGED <<nodes, calls, value, req, op, context>>

Handle(httpMethod, relativePath, handlers) ==
    /\ op = "idle"
    /\ Len(calls) < MaxRoutes
    /\ LET r == handle(centre, httpMethod, relativePath, handlers, Len(calls) + 1)
       IN  /\ centre' = [centre EXCEPT !.trees = r.trees]
           /\ calls' = Append(calls, [method |-> httpMethod, path |-> r.path,
                                      handlers |-> r.handlers, ok |-> r.ok])
    /\ UNCHANGED <<nodes, value, req, op, context>>

ServeHTTP(httpMethod, rPath) ==
    /\ op = "idle"
    /\ context' = handleHTTPRequest(centre, calls, httpMethod, rPath)
    /\ req' = [method |-> httpMethod, path |-> rPath]
    /\ op' = "ServeHTTP"
    /\ UNCHANGED <<nodes, calls, value, centre>>

\* the Context goes back to the pool and is reset for the next request
PutContext ==
    /\ op = "ServeHTTP"
    /\ context' = NoContext
    /\ req' = NoReq
    /\ op' = "idle"
    /\ UNCHANGED <<nodes, calls, value, centre>>

NextHttp ==
    \/ \E middleware \in Middleware : Use(middleware)
    \/ \E handlers \in {<<>>, <<"nr">>} : NoRoute(handlers)
    \/ \E handlers \in {<<>>, <<"nm">>} : NoMethod(handlers)
    \/ \E r \in BOOLEAN, h \in BOOLEAN : Configure(r, h)
    \/ \E m \in Methods, p \in RelativePaths : Handle(m, p, <<"h">>)
    \/ \E m \in RequestMethods, path \in HttpPaths : ServeHTTP(m, path)
    \/ PutContext

SpecHttp == Init /\ [][NextHttp]_vars

\* registrations alone, of every pattern of the single-tree model under
\* either method
NextRoutes == \E m \in Methods, p \in Patterns : Handle(m, p, <<"h">>)

SpecRoutes == Init /\ [][NextRoutes]_vars

Served == op = "ServeHTTP"

\* C11: handleHTTPRequest never returns without an outcome: for any method,
\* with a tree or without, and any path it ends having run a matched route's
\* chain, issued a redirect, served 405 or served 404.
C11_AlwaysAnswered ==
    (Served /\ AllOk) =>
        \/ context.outcome = "route"
        \/ context.outcome = "redirect"
        \/ context.outcome = "error"
              /\ context.status \in {StatusNotFound, StatusMethodNotAllowed}

\* what the code keeps of C11: a request whose method has no tree, or whose
\* path is "/", or whose method is CONNECT, always has an outcome
C11_AnsweredWithoutTree ==
    (/\ Served /\ AllOk
     /\ \/ treeOf(centre.trees, req.method) = 0
        \/ req.path = <<"/">>
        \/ req.method = "CONNECT") =>
        \/ context.outcome = "route"
        \/ context.outcome = "error"
              /\ context.status \in {StatusNotFound, StatusMethodNotAllowed}

\* the chain starts with all the middleware passed to Use so far
StartsWithMiddleware(chain) ==
    /\ Len(chain) >= Len(centre.Handlers)
    /\ SubSeq(chain, 1, Len(centre.Handlers)) = centre.Handlers

\* C15: after any sequence of Use, NoRoute, NoMethod and registration calls,
\* the chain run for a matched route, for a 404 and for a 405 starts with all
\* the middleware that was passed to Use.
C15_MiddlewareInEveryChain ==
    (Served /\ AllOk /\ context.outcome \in {"route", "error"}) =>
        StartsWithMiddleware(context.handlers)

\* what the code keeps of C15: the chains of 404 and 405
C15_MiddlewareInErrorChains ==
    (Served /\ context.outcome = "error") => StartsWithMiddleware(context.handlers)

\* C16: after successful registrations, Routes() holds exactly one entry per
\* registered (method, pattern) pair and no other, each entry's Path being
\* the pattern as it was registered.
C16_RoutesExact ==
    AllOk =>
        LET routes == Routes(centre)
        IN  /\ Len(routes) = Len(calls)
            /\ \A k \in 1..Len(calls) :
                  Cardinality({i \in 1..Len(routes) :
                                 /\ routes[i].Method = calls[k].method
                                 /\ routes[i].Path = calls[k].path}) = 1
            /\ \A i \in 1..Len(routes) :
                  /\ routes[i].chain \in 1..Len(calls)
                  /\ routes[i].Method = calls[routes[i].chain].method
                  /\ routes[i].Path = calls[routes[i].chain].path

\* /a/:x/b is registered for one method, /a/*x for the other, and Routes()
\* reports both
C16_Witness ==
    /\ AllOk /\ Len(calls) = 2
    /\ Len(centre.trees) = 2
    /\ calls[1].path = <<"/", "a", "/", ":", "x", "/", "b">>
    /\ calls[2].path = <<"/", "a", "/", "*", "x">>
    /\ Len(Routes(centre)) = 2

(***************************************************************************)
(* The shape of the tree after successful insertions.                      *)
(***************************************************************************)
\* the node has a first child, and that child is a :name or part of a /*name
FirstChildIsWildcard(n) ==
    /\ Len(nodes[n].children) > 0
    /\ IsWildcardNode(At(nodes[n].children, 0))

\* C21: after every successful insertion, at every node wildChild is true if
\* and only if children[0] exists and is of kind param or catchAll, and a node
\* with wildChild set has exactly one child and empty indices.
C21_WildChildCharacterisation ==
    AllOk =>
        \A n \in 1..Len(nodes) :
            /\ nodes[n].wildChild <=> FirstChildIsWildcard(n)
            /\ nodes[n].wildChild =>
                  Len(nodes[n].children) = 1 /\ nodes[n].indices = <<>>

\* what the code keeps of C21: the implication from wildChild to the shape of
\* the children; the node before a /*name has wildChild unset, although its
\* only child is the catchAll node of empty path, which it lists under '/'
C21_WildChildImpliesWildcardOnly ==
    AllOk =>
        \A n \in 1..Len(nodes) :
            /\ nodes[n].wildChild =>
                  /\ FirstChildIsWildcard(n)
                  /\ Len(nodes[n].children) = 1
                  /\ nodes[n].indices = <<>>
            /\ (FirstChildIsWildcard(n) /\ ~nodes[n].wildChild) =>
                  /\ nodes[At(nodes[n].children, 0)].nType = "catchAll"
                  /\ nodes[At(nodes[n].children, 0)].path = <<>>

\* the nodes of the subtree below n, n included
RECURSIVE Subtree(_)
Subtree(n) ==
    {n} \cup UNION {Subtree(nodes[n].children[k]) : k \in 1..Len(nodes[n].children)}

\* what is left of a request path when a lookup arrives at a node
RestsOfPaths == {From(p, k) : p \in RequestPaths, k \in 0..MaxPathLen} \ {<<>>}

\* the number of captures a lookup produces from node n downward when it
\* arrives there with rest still to match, in a buffer that has room for them
CapturesFrom(n, rest) ==
    LET room == [NoValue EXCEPT !.cap = Len(rest) + nodes[n].maxParams]
    IN  Len((CASE nodes[n].nType = "param" ->
                    getValueParam(nodes, n, rest, room, FALSE)
               [] nodes[n].nType = "catchAll" /\ nodes[n].path # <<>> ->
                    getValueCatchAll(nodes, n, rest, room, FALSE)
               [] OTHER -> getValueWalk(nodes, n, rest, room, FALSE)).params)

\* the two bounds C22 states of one node
DominatesSubtree(n) ==
    /\ \A d \in Subtree(n) : nodes[n].maxParams >= nodes[d].maxParams
    /\ \A rest \in RestsOfPaths : CapturesFrom(n, rest) <= nodes[n].maxParams

\* C22: after every successful insertion every node's maxParams, the method
\* root's included, is at least the maxParams of each of its descendants, and
\* no lookup that passes through a node produces more captures from that node
\* downward than the node's maxParams.
C22_MaxParamsDominance ==
    (AllOk /\ op = "idle") => \A n \in 1..Len(nodes) : DominatesSubtree(n)

\* what the code keeps of C22: both bounds at every node but the method root,
\* whose maxParams the first insertion into the empty tree leaves at 0
C22_MaxParamsDominanceBelowRoot ==
    (AllOk /\ op = "idle") => \A n \in 2..Len(nodes) : DominatesSubtree(n)

\* the number of registered routes that end in the subtree of n
RoutesBelow(n) == Cardinality({d \in Subtree(n) : nodes[d].handlers # 0})

\* C23: after any sequence of successful insertions every node's priority is
\* the number of registered routes whose last node lies in that node's
\* subtree, the node itself included, also when an insertion splits the node,
\* and no insertion lowers the priority of a node.
C23_PriorityCountsRoutes ==
    /\ [](AllOk => \A n \in 1..Len(nodes) : nodes[n].priority = RoutesBelow(n))
    /\ [][AllOk' => \A n \in 1..Len(nodes) :
                       nodes'[n].priority >= nodes[n].priority]_vars

\* of three routes two share a node below the root that an insertion split:
\* it holds no route itself and counts the two that end below it
C23_Witness ==
    /\ AllOk /\ Len(calls) = 3
    /\ nodes[1].priority = 3
    /\ \E n \in 2..Len(nodes) :
          /\ nodes[n].priority = 2
          /\ nodes[n].handlers = 0
          /\ Len(nodes[n].children) >= 2

\* the children of n are in order of non-increasing priority
SortedByPriority(n) ==
    \A i \in 1..(Len(nodes[n].children) - 1) :
        nodes[nodes[n].children[i]].priority >= nodes[nodes[n].children[i + 1]].priority

\* every child of n that had an index byte and is still a child of n has the
\* same index byte, at its new position, after the step
KeepsIndexBytes(n) ==
    \A i \in 1..min(Len(nodes[n].indices), Len(nodes[n].children)) :
        \A j \in 1..Len(nodes'[n].children) :
            nodes'[n].children[j] = nodes[n].children[i] =>
                /\ j <= Len(nodes'[n].indices)
                /\ nodes'[n].indices[j] = nodes[n].indices[i]

\* C24: after every insertion the children of every node are in order of
\* non-increasing priority, and a reorder moves the index bytes as it moves
\* the children: the byte paired with a child before an insertion is paired
\* with the same child after it.
C24_ChildrenSortedByPriority ==
    /\ [](\A n \in 1..Len(nodes) : SortedByPriority(n))
    /\ [][\A n \in 1..Len(nodes) : KeepsIndexBytes(n)]_vars

\* an insertion has moved a child in front of the one registered before it:
\* /ab came first, and its node now stands behind the node of /a/ and /a/b
C24_Witness ==
    /\ AllOk /\ Len(calls) = 3
    /\ calls[1].path = <<"/", "a", "b">>
    /\ Len(nodes[1].children) = 2
    /\ nodes[1].indices = <<"/", "b">>
    /\ nodes[nodes[1].children[1]].priority = 2
    /\ nodes[nodes[1].children[2]].priority = 1

\* the number of nodes on the longest way from n down to a leaf
RECURSIVE Depth(_)
Depth(n) ==
    LET below == {Depth(nodes[n].children[k]) : k \in 1..Len(nodes[n].children)}
    IN  1 + (IF below = {} THEN 0 ELSE CHOOSE m \in below : \A o \in below : o <= m)

\* C25: on every tree built by successful registrations, for every request
\* path, buffer and unescape flag, getValue returns after at most as many
\* rounds of its loop as the tree is deep, and it does not panic: no invalid
\* node type, no index out of range on children, indices, path or params.
C25_LookupCompletes ==
    (Looked /\ AllOk) =>
        /\ ~value.panicked
        /\ value.rounds >= 1
        /\ value.rounds <= Depth(1)

\* a lookup went the whole depth of a tree of three levels of static nodes and
\* found nothing there
C25_Witness ==
    /\ Looked /\ AllOk
    /\ Depth(1) >= 3
    /\ value.rounds = Depth(1)
    /\ value.params = <<>>
    /\ value.handlers = 0
    /\ ~value.tsr

\* what a lookup of path returns on tree t, given no buffer
lookup(t, path, unescape) ==
    getValue(t, path, [params |-> <<>>, cap |-> 0], unescape)

\* the lookups that return a chain on the tree before the step return the same
\* chain and the same params on the tree after it
KeepsRoutes ==
    \A path \in RequestPaths, unescape \in BOOLEAN :
        LET before == lookup(nodes, path, unescape)
            after  == lookup(nodes', path, unescape)
        IN  before.handlers # 0 =>
                /\ after.handlers = before.handlers
                /\ after.params = before.params

\* C26: if getValue(path) returns the chain H with the params P on a tree,
\* then after any further successful addRoute on that tree, one that splits a
\* node on the way to path or reorders children included, getValue(path)
\* still returns H and P.  Stated of one registration; a sequence of them
\* follows step by step.
C26_RoutesStable ==
    [][(nodes # <<>> /\ nodes' # nodes /\ AllOk') => KeepsRoutes]_vars

\* /ab is still found after two insertions, of which one split its node and
\* the other moved it behind a sibling
C26_Witness ==
    /\ AllOk /\ Len(calls) = 3
    /\ calls[1].path = <<"/", "a", "b">>
    /\ nodes[1].indices = <<"/", "b">>
    /\ lookup(nodes, <<"/", "a", "b">>, FALSE).handlers = 1
    /\ lookup(nodes, <<"/", "a", "/", "b">>, FALSE).handlers = 3

\* C25 on the trees of SpecWild, built from arbitrary patterns: every lookup
\* without a buffer completes there too
C25_LookupCompletesOnAnyTree ==
    (AllOk /\ nodes # <<>>) =>
        \A path \in PathsUpTo(MaxPathLen) \cup DeepPaths :
            /\ ~lookup(nodes, path, FALSE).panicked
            /\ lookup(nodes, path, FALSE).rounds <= Depth(1)

\* the orders in which the registrations made so far could have been made
Orders ==
    {f \in [1..Len(calls) -> 1..Len(calls)] :
        \A i, j \in 1..Len(calls) : f[i] = f[j] => i = j}

\* the tree and the outcome of registering, on tree t, the patterns of the
\* calls order[k..], each with the chain it has in calls
RECURSIVE register(_, _, _, _)
register(t, ok, order, k) ==
    IF k > Len(calls) THEN [t |-> t, ok |-> ok]
    ELSE LET r == CentreAddRoute(t, calls[order[k]].path, order[k])
         IN  register(r.t, ok /\ r.ok, order, k + 1)

\* the tree of the same registrations made in another order
Reordered(order) == register(<<>>, TRUE, order, 1)

\* two lookups agree in what C27 compares
SameAnswer(v, w) ==
    /\ v.handlers = w.handlers
    /\ v.params = w.params
    /\ v.tsr = w.tsr

\* C27: for any set of patterns, every order of registration either succeeds
\* for all patterns or fails for some, alike, and when all succeed getValue
\* returns the same handlers, params and tsr for every request path whichever
\* order was used.
C27_OrderIndependent ==
    (op = "idle" /\ Len(calls) >= 2) =>
        \A order \in Orders :
            /\ Reordered(order).ok = AllOk
            /\ AllOk =>
                  \A path \in RequestPaths :
                      SameAnswer(lookup(Reordered(order).t, path, FALSE),
                                 lookup(nodes, path, FALSE))

\* what the code keeps of C27: the outcome of the registrations, and the
\* chain and the params of every lookup that finds a route
C27_OrderIndependentRoutes ==
    (op = "idle" /\ Len(calls) >= 2) =>
        \A order \in Orders :
            /\ Reordered(order).ok = AllOk
            /\ AllOk =>
                  \A path \in RequestPaths :
                      LET v == lookup(Reordered(order).t, path, FALSE)
                          w == lookup(nodes, path, FALSE)
                      IN  v.handlers = w.handlers
                          /\ (v.handlers # 0 => v.params = w.params)

\* the step is a registration that was refused, on a tree of successful ones
Rejected ==
    /\ AllOk /\ nodes # <<>>
    /\ Len(calls') = Len(calls) + 1
    /\ ~calls'[Len(calls')].ok

\* the request paths looked up to compare two trees
ProbePaths == PathsUpTo(MaxPathLen) \cup DeepPaths

\* C28: a rejected registration has no effect.  After an addRoute that failed
\* (conflict, duplicate, invalid wildcard name, misplaced catch-all) every
\* getValue returns the same handlers, params and tsr as before the call, and
\* every later addRoute succeeds or fails as it would have on the tree before
\* the call.
C28_RejectedHasNoEffect ==
    [][Rejected =>
        /\ \A path \in ProbePaths :
              SameAnswer(lookup(nodes', path, FALSE), lookup(nodes, path, FALSE))
        /\ \A p \in AnyPatterns(MaxAnyLen) :
              addRoute(nodes', p, Len(calls') + 1).ok
                  = addRoute(nodes, p, Len(calls') + 1).ok]_vars

\* what the code keeps of C28: a lookup that found a route before the
\* rejected call finds the same chain with the same params after it
C28_RejectedKeepsRoutes ==
    [][Rejected =>
        \A path \in ProbePaths :
            LET before == lookup(nodes, path, FALSE)
                after  == lookup(nodes', path, FALSE)
            IN  before.handlers # 0 =>
                    /\ after.handlers = before.handlers
                    /\ after.params = before.params]_vars

\* key is the name of a :name capture of pattern p
IsNameCapture(p, key) ==
    \E k \in 0..(Len(p) - 1) : At(p, k) = ":" /\ From(WildSeg(p, k), 1) = key

\* the params of the lookup that belong to :name captures of the matched route
NameCaptures ==
    {i \in 1..Len(value.params) :
        IsNameCapture(calls[value.handlers].path, value.params[i].Key)}

HasSlash(s) == \E k \in 1..Len(s) : s[k] = "/"

\* C29: in every getValue result that carries handlers, each value bound to a
\* :name capture is one path segment: it contains no '/' and is not empty.
C29_NameCaptureOneSegment ==
    (Looked /\ AllOk /\ value.handlers # 0) =>
        \A i \in NameCaptures :
            /\ value.params[i].Value # <<>>
            /\ ~HasSlash(value.params[i].Value)

\* what the code keeps of C29: without unescape the value holds no '/', and
\* the value of a :name that ends the pattern is not empty
C29_NameCaptureRawWithoutSlash ==
    (Looked /\ AllOk /\ value.handlers # 0) =>
        \A i \in NameCaptures :
            /\ ~req.unescape => ~HasSlash(value.params[i].Value)
            /\ (i = Len(value.params) /\ value.params[i].Value = <<>>) =>
                  From(calls[value.handlers].path,
                       Len(calls[value.handlers].path) - 1) # value.params[i].Key

\* the node saves a capture when a lookup passes it: a :name, or the node of
\* a /*name that holds the name (the catchAll node of empty path above it
\* saves none)
SavesCapture(n) ==
    \/ nodes[n].nType = "param"
    \/ nodes[n].nType = "catchAll" /\ nodes[n].path # <<>>

\* the nodes counted: every node of kind param or catchAll, or those of them
\* that save a capture
Counted(n, byKind) == IF byKind THEN IsWildcardNode(n) ELSE SavesCapture(n)

\* the largest number of counted nodes on a way from n down to a leaf
RECURSIVE CountDown(_, _)
CountDown(n, byKind) ==
    LET below == {CountDown(nodes[n].children[k], byKind) :
                     k \in 1..Len(nodes[n].children)}
    IN  (IF Counted(n, byKind) THEN 1 ELSE 0)
          + (IF below = {} THEN 0 ELSE CHOOSE m \in below : \A o \in below : o <= m)

\* the maxParams of n covers the counted nodes from n down, and exceeds the
\* maxParams of each of them below n
CoversBelow(n, byKind) ==
    /\ nodes[n].maxParams >= CountDown(n, byKind)
    /\ \A d \in Subtree(n) \ {n} :
          Counted(d, byKind) => nodes[n].maxParams > nodes[d].maxParams

\* what C30 concludes of a lookup: at most one allocation, made before any
\* capture was saved, and no write past the capacity of the buffer
AllocatesOnceAtFirstWildcard ==
    /\ ~value.panicked
    /\ value.allocs <= 1
    /\ value.lost = 0
    /\ Len(value.params) <= value.cap
    /\ value.realloc <=> value.allocs = 1

\* C30 as stated: on every tree built by successful registrations each node of
\* kind param or catchAll has a maxParams that is at least the number of
\* wildcard nodes from it down to the leaf and strictly greater than the
\* maxParams of every wildcard node below it; hence getValue, given no buffer
\* or one that is too small, allocates at most once, at the first wildcard
\* node it meets, discards no capture and never writes past the capacity.
C30_WildcardNodesCovered ==
    AllOk =>
        /\ \A n \in 1..Len(nodes) :
              IsWildcardNode(n) => CoversBelow(n, TRUE)
        /\ Looked => AllocatesOnceAtFirstWildcard

\* C30 of the nodes that save a capture: on every tree built by successful
\* registrations each :name node and each node holding a /*name has a
\* maxParams that is at least the number of capturing nodes from it down to
\* the leaf and strictly greater than the maxParams of every capturing node
\* below it, the catchAll node of empty path having the maxParams 1 of the
\* node below it; hence getValue allocates at most once, at the first
\* wildcard node it meets, discards no capture and never writes past the
\* capacity.
C30_CapturingNodesCovered ==
    AllOk =>
        /\ \A n \in 1..Len(nodes) :
              /\ SavesCapture(n) => CoversBelow(n, FALSE)
              /\ (IsWildcardNode(n) /\ ~SavesCapture(n)) =>
                    /\ nodes[n].maxParams = 1
                    /\ \A d \in Subtree(n) \ {n} : nodes[d].maxParams <= 1
        /\ Looked => AllocatesOnceAtFirstWildcard

\* a lookup matched /:x/*y with a buffer of capacity 1: it allocated once, at
\* :x, and saved both captures
C30_Witness ==
    /\ Looked /\ AllOk
    /\ value.handlers # 0
    /\ calls[value.handlers].path = <<"/", ":", "x", "/", "*", "y">>
    /\ req.cap = 1
    /\ value.allocs = 1 /\ value.cap = 2
    /\ Len(value.params) = 2

====
